---- MODULE Spec2Model ----
(***************************************************************************)
(* Model of src/src/pcap/tcp.rs: the Tcp layer of pcap2socks, a typed TCP  *)
(* header with its two IPv4 endpoint addresses, its constructors, parse,   *)
(* the flag predicates, get_size and the two serialize entry points.       *)
(*                                                                         *)
(* tcp.rs delegates the byte work to the pnet packet types it imports      *)
(* (tcp.rs:2): TcpPacket / MutableTcpPacket / TcpFlags / ipv4_checksum.    *)
(* Those calls are modelled by what the generated pnet accessors do:       *)
(*   - MutableTcpPacket::new(buf) is None iff buf is shorter than the 20   *)
(*     byte minimum header;                                                *)
(*   - populate writes the fixed fields, then the options, then the        *)
(*     payload, each setter bounds-checked (a write outside the buffer or  *)
(*     a failed length assertion panics, the bytes written so far stay);   *)
(*   - TcpPacket::packet_size(&Tcp) is 20 + options.len() + payload.len(), *)
(*     options.len() being the number of TcpOption entries;                *)
(*   - tcp::ipv4_checksum sums the pseudo-header and the whole buffer the  *)
(*     packet wraps, skipping 16-bit word 8 (the checksum field).          *)
(*   - a TCP option whose length byte is below 2 has no data (the option   *)
(*     length functions do not underflow), so reading options is total.    *)
(* Header layout: 4-bit data_offset, 4-bit reserved, 8-bit flags.          *)
(* The 32-bit fields take values below 2^31 here; no step of the code      *)
(* does arithmetic on them, they are only split into and joined from       *)
(* bytes.                                                                  *)
(***************************************************************************)
EXTENDS Integers, Sequences, FiniteSets, TLC

VARIABLES seg, buf, before, result, op, args

vars == <<seg, buf, before, result, op, args>>

(***************************************************************************)
(* Bounds of the model.                                                    *)
(***************************************************************************)
MaxPayload == 4
MaxOptions == 2
MaxCap == 29

(***************************************************************************)
(* Program constants.                                                      *)
(***************************************************************************)
FIN == 1
SYN == 2
RST == 4
ACK == 16
MINIMUM_PACKET_SIZE == 20
DEFAULT_DATA_OFFSET == 5
DEFAULT_WINDOW == 65535
IPPROTO_TCP == 6
CHECKSUM_WORD == 8

(***************************************************************************)
(* Machine arithmetic.                                                     *)
(***************************************************************************)
Min(a, b) == IF a < b THEN a ELSE b

RECURSIVE Pow2(_)
Pow2(n) == IF n = 0 THEN 1 ELSE 2 * Pow2(n - 1)

Bit(v, i) == (v \div Pow2(i)) % 2

RECURSIVE BitAndUpTo(_, _, _)
BitAndUpTo(a, b, i) ==
    IF i < 0 THEN 0
    ELSE Bit(a, i) * Bit(b, i) * Pow2(i) + BitAndUpTo(a, b, i - 1)

\* a & b on u8 operands
BitAnd(a, b) == BitAndUpTo(a, b, 7)

\* a | b on u8 operands
BitOr(a, b) == a + b - BitAnd(a, b)

U16BE(v) == <<(v \div 256) % 256, v % 256>>

U32BE(v) == <<(v \div 16777216) % 256, (v \div 65536) % 256, (v \div 256) % 256, v % 256>>

\* buffer[off .. off + Len(bytes)] = bytes, 0-based off; the caller checks the bounds
WriteAt(buffer, off, bytes) ==
    [i \in 1..Len(buffer) |->
        IF i > off /\ i <= off + Len(bytes) THEN bytes[i - off] ELSE buffer[i]]

\* packet[from .. to) with 0-based, already clamped bounds
Slice(packet, from, to) == IF to <= from THEN <<>> ELSE SubSeq(packet, from + 1, to)

(***************************************************************************)
(* TcpOption, the element type of layer.options: number, optional length   *)
(* byte, data.                                                             *)
(***************************************************************************)
TcpOption_nop == [number |-> 1, length |-> <<>>, data |-> <<>>]

TcpOption_mss(val) == [number |-> 2, length |-> <<4>>, data |-> U16BE(val)]

\* tcp_option_length: EOL and NOP carry no length byte
tcp_option_length(number) == IF number \in {0, 1} THEN 0 ELSE 1

\* tcp_option_payload_length over the option packet's bytes
tcp_option_payload_length(packet) ==
    LET raw == Slice(packet, 1, Min(1 + tcp_option_length(packet[1]), Len(packet)))
    IN IF Len(raw) > 0 /\ raw[1] >= 2 THEN raw[1] - 2 ELSE 0

\* TcpOptionPacket::packet_size(&self) of an option packet on the wire
option_wire_size(packet) ==
    1 + tcp_option_length(packet[1]) + tcp_option_payload_length(packet)

\* TcpOptionPacket::from_packet
option_from_packet(packet) ==
    LET ll == tcp_option_length(packet[1])
        start == 1 + ll
    IN [number |-> packet[1],
        length |-> Slice(packet, 1, Min(1 + ll, Len(packet))),
        data |-> IF Len(packet) <= start THEN <<>>
                 ELSE Slice(packet, start, Min(start + tcp_option_payload_length(packet), Len(packet)))]

\* TcpOptionIterable: one option per step, each over the rest of the region
RECURSIVE option_iter(_)
option_iter(region) ==
    IF Len(region) = 0 THEN <<>>
    ELSE LET start == Min(option_wire_size(region), Len(region))
         IN <<option_from_packet(region)>> \o option_iter(Slice(region, start, Len(region)))

(***************************************************************************)
(* TcpPacket getters over a wire buffer.                                   *)
(***************************************************************************)
get_u16(packet, off) == packet[off + 1] * 256 + packet[off + 2]

get_u32(packet, off) ==
    packet[off + 1] * 16777216 + packet[off + 2] * 65536 + packet[off + 3] * 256 + packet[off + 4]

get_data_offset(packet) == packet[13] \div 16

get_reserved(packet) == packet[13] % 16

\* tcp_options_length: the option bytes the wire data_offset declares
tcp_options_length(packet) ==
    IF get_data_offset(packet) > DEFAULT_DATA_OFFSET
    THEN get_data_offset(packet) * 4 - MINIMUM_PACKET_SIZE
    ELSE 0

get_options(packet) ==
    LET end == Min(MINIMUM_PACKET_SIZE + tcp_options_length(packet), Len(packet))
    IN option_iter(Slice(packet, MINIMUM_PACKET_SIZE, end))

(***************************************************************************)
(* Constructors and parse.                                                 *)
(***************************************************************************)
new_ack(src_ip_addr, dst_ip_addr, src, dst, sequence, acknowledgement) ==
    [layer |-> [source |-> src,
                destination |-> dst,
                sequence |-> sequence,
                acknowledgement |-> acknowledgement,
                data_offset |-> DEFAULT_DATA_OFFSET,
                reserved |-> 0,
                flags |-> ACK,
                window |-> DEFAULT_WINDOW,
                checksum |-> 0,
                urgent_ptr |-> 0,
                options |-> <<>>,
                payload |-> <<>>],
     src |-> src_ip_addr,
     dst |-> dst_ip_addr]

new_ack_syn(src_ip_addr, dst_ip_addr, src, dst, sequence, acknowledgement) ==
    LET tcp == new_ack(src_ip_addr, dst_ip_addr, src, dst, sequence, acknowledgement)
    IN [tcp EXCEPT !.layer.flags = BitOr(ACK, SYN)]

\* mutant of new_rst: the reset also acknowledges
new_rst_with_ack(src_ip_addr, dst_ip_addr, src, dst, sequence, acknowledgement) ==
    LET tcp == new_ack(src_ip_addr, dst_ip_addr, src, dst, sequence, acknowledgement)
    IN [tcp EXCEPT !.layer.flags = BitOr(RST, ACK)]

new_rst(src_ip_addr, dst_ip_addr, src, dst, sequence, acknowledgement) ==
    LET tcp == new_ack(src_ip_addr, dst_ip_addr, src, dst, sequence, acknowledgement)
    IN [tcp EXCEPT !.layer.flags = RST]

from(tcp, src, dst) == [layer |-> tcp, src |-> src, dst |-> dst]

\* mutant of parse: the bytes after the declared header become the payload
parse_with_payload(packet, src, dst) ==
    [layer |-> [source |-> get_u16(packet, 0),
                destination |-> get_u16(packet, 2),
                sequence |-> get_u32(packet, 4),
                acknowledgement |-> get_u32(packet, 8),
                data_offset |-> get_data_offset(packet),
                reserved |-> get_reserved(packet),
                flags |-> packet[14],
                window |-> get_u16(packet, 14),
                checksum |-> get_u16(packet, 16),
                urgent_ptr |-> get_u16(packet, 18),
                options |-> get_options(packet),
                payload |-> Slice(packet,
                                  Min(MINIMUM_PACKET_SIZE + tcp_options_length(packet), Len(packet)),
                                  Len(packet))],
     src |-> src,
     dst |-> dst]

parse(packet, src, dst) ==
    [layer |-> [source |-> get_u16(packet, 0),
                destination |-> get_u16(packet, 2),
                sequence |-> get_u32(packet, 4),
                acknowledgement |-> get_u32(packet, 8),
                data_offset |-> get_data_offset(packet),
                reserved |-> get_reserved(packet),
                flags |-> packet[14],
                window |-> get_u16(packet, 14),
                checksum |-> get_u16(packet, 16),
                urgent_ptr |-> get_u16(packet, 18),
                options |-> get_options(packet),
                payload |-> <<>>],
     src |-> src,
     dst |-> dst]

(***************************************************************************)
(* Accessors and flag predicates.                                          *)
(***************************************************************************)
get_src_ip_addr(self) == self.src

get_dst_ip_addr(self) == self.dst

is_ack(self) == BitAnd(self.layer.flags, ACK) # 0

is_rst(self) == BitAnd(self.layer.flags, RST) # 0

is_syn(self) == BitAnd(self.layer.flags, SYN) # 0

is_fin(self) == BitAnd(self.layer.flags, FIN) # 0

\* mutant of is_rst_or_fin: both flags required
is_rst_and_fin(self) == is_rst(self) /\ is_fin(self)

is_rst_or_fin(self) == is_rst(self) \/ is_fin(self)

\* TcpPacket::packet_size(&self.layer)
get_size(self) == MINIMUM_PACKET_SIZE + Len(self.layer.options) + Len(self.layer.payload)

(***************************************************************************)
(* MutableTcpPacket::populate, as serialize_internal calls it.             *)
(***************************************************************************)
\* the ten fixed-field setters, in populate's order; the 4-bit setters mask
fixed_fields(layer) ==
    U16BE(layer.source) \o U16BE(layer.destination) \o U32BE(layer.sequence)
    \o U32BE(layer.acknowledgement)
    \o <<(layer.data_offset % 16) * 16 + (layer.reserved % 16), layer.flags % 256>>
    \o U16BE(layer.window) \o U16BE(layer.checksum) \o U16BE(layer.urgent_ptr)

\* MutableTcpOptionPacket::new(&mut packet[off..]).unwrap().populate(val)
option_populate(buffer, off, val) ==
    IF off >= Len(buffer) THEN [ok |-> FALSE, buffer |-> buffer, size |-> 0]
    ELSE
    LET b1 == WriteAt(buffer, off, <<val.number % 256>>)
        ll == tcp_option_length(b1[off + 1])
    IN IF Len(val.length) > ll \/ off + 1 + Len(val.length) > Len(buffer)
       THEN [ok |-> FALSE, buffer |-> b1, size |-> 0]
       ELSE
       LET b2 == WriteAt(b1, off + 1, val.length)
           pl == tcp_option_payload_length(Slice(b2, off, Len(b2)))
       IN IF Len(val.data) > pl \/ off + 1 + ll + Len(val.data) > Len(buffer)
          THEN [ok |-> FALSE, buffer |-> b2, size |-> 0]
          ELSE [ok |-> TRUE,
                buffer |-> WriteAt(b2, off + 1 + ll, val.data),
                size |-> 1 + ll + pl]

\* MutableTcpPacket::set_options: each option checked against the declared end
RECURSIVE set_options(_, _, _, _)
set_options(buffer, vals, current_offset, end) ==
    IF Len(vals) = 0 THEN [ok |-> TRUE, buffer |-> buffer]
    ELSE LET o == option_populate(buffer, current_offset, Head(vals))
         IN IF ~o.ok \/ current_offset + o.size > end
            THEN [ok |-> FALSE, buffer |-> o.buffer]
            ELSE set_options(o.buffer, Tail(vals), current_offset + o.size, end)

\* MutableTcpPacket::set_payload, after the options the wire data_offset declares
set_payload(buffer, vals) ==
    LET current_offset == MINIMUM_PACKET_SIZE + tcp_options_length(buffer)
    IN IF current_offset + Len(vals) > Len(buffer)
       THEN [ok |-> FALSE, buffer |-> buffer]
       ELSE [ok |-> TRUE, buffer |-> WriteAt(buffer, current_offset, vals)]

populate(buffer, layer) ==
    LET b0 == WriteAt(buffer, 0, fixed_fields(layer))
        o == set_options(b0, layer.options, MINIMUM_PACKET_SIZE,
                         MINIMUM_PACKET_SIZE + tcp_options_length(b0))
    IN IF ~o.ok THEN o ELSE set_payload(o.buffer, layer.payload)

\* MutableTcpPacket::set_data_offset(val as u8): the high nibble of byte 12
set_data_offset(buffer, val) ==
    WriteAt(buffer, 12, <<(buffer[13] % 16) + ((val % 256) % 16) * 16>>)

set_checksum(buffer, val) == WriteAt(buffer, 16, U16BE(val))

(***************************************************************************)
(* tcp::ipv4_checksum over the packet's whole buffer.                      *)
(***************************************************************************)
\* util::sum_be_words from word i on
RECURSIVE sum_be_words_from(_, _, _)
sum_be_words_from(data, skipword, i) ==
    IF 2 * i + 2 <= Len(data)
    THEN (IF i # skipword THEN data[2 * i + 1] * 256 + data[2 * i + 2] ELSE 0)
         + sum_be_words_from(data, skipword, i + 1)
    ELSE IF i # skipword /\ Len(data) % 2 = 1 THEN data[Len(data)] * 256 ELSE 0

\* the u32 accumulator cannot wrap below 2^16 words
sum_be_words(data, skipword) ==
    IF Len(data) = 0 THEN 0 ELSE sum_be_words_from(data, skipword, 0)

ipv4_word_sum(ip) == (ip[1] * 256 + ip[2]) + (ip[3] * 256 + ip[4])

RECURSIVE finalize_checksum(_)
finalize_checksum(sum) ==
    IF sum \div 65536 # 0
    THEN finalize_checksum((sum \div 65536) + (sum % 65536))
    ELSE 65535 - sum

ipv4_checksum(packet, source, destination) ==
    finalize_checksum(ipv4_word_sum(source) + ipv4_word_sum(destination) + IPPROTO_TCP
                      + Len(packet) + sum_be_words(packet, CHECKSUM_WORD))

(***************************************************************************)
(* serialize_internal and the Layer entry points.  The outcome carries the *)
(* result, the buffer as the call leaves it and the segment (&self).       *)
(***************************************************************************)
Ok(n) == [kind |-> "Ok", n |-> n]

Err == [kind |-> "Err", n |-> 0]

Panic == [kind |-> "Panic", n |-> 0]

NoResult == [kind |-> "None", n |-> 0]

\* mutant of serialize_internal: the header as written is stored back in the segment
serialize_internal_storing(self, buffer, fix_length, compute_checksum) ==
    IF Len(buffer) < MINIMUM_PACKET_SIZE
    THEN [result |-> Err, buffer |-> buffer, self |-> self]
    ELSE
    LET p == populate(buffer, self.layer)
    IN IF ~p.ok THEN [result |-> Panic, buffer |-> p.buffer, self |-> self]
       ELSE
       LET fixed == IF fix_length THEN set_data_offset(p.buffer, get_size(self) \div 4)
                    ELSE p.buffer
           summed == IF compute_checksum
                     THEN set_checksum(fixed, ipv4_checksum(fixed, get_src_ip_addr(self),
                                                            get_dst_ip_addr(self)))
                     ELSE fixed
       IN [result |-> Ok(get_size(self)),
           buffer |-> summed,
           self |-> [self EXCEPT !.layer.data_offset = get_data_offset(summed),
                                 !.layer.checksum = get_u16(summed, 16)]]

serialize_internal(self, buffer, fix_length, compute_checksum) ==
    IF Len(buffer) < MINIMUM_PACKET_SIZE
    THEN [result |-> Err, buffer |-> buffer, self |-> self]
    ELSE
    LET p == populate(buffer, self.layer)
    IN IF ~p.ok THEN [result |-> Panic, buffer |-> p.buffer, self |-> self]
       ELSE
       LET fixed == IF fix_length THEN set_data_offset(p.buffer, get_size(self) \div 4)
                    ELSE p.buffer
           summed == IF compute_checksum
                     THEN set_checksum(fixed, ipv4_checksum(fixed, get_src_ip_addr(self),
                                                            get_dst_ip_addr(self)))
                     ELSE fixed
       IN [result |-> Ok(get_size(self)), buffer |-> summed, self |-> self]

serialize(self, buffer) == serialize_internal(self, buffer, FALSE, TRUE)

serialize_n(self, buffer, n) == serialize_internal(self, buffer, TRUE, TRUE)

(***************************************************************************)
(* Inputs the callers draw from.                                           *)
(***************************************************************************)
SrcAddrs == {<<10, 0, 0, 1>>}

DstAddrs == {<<10, 0, 0, 2>>}

SrcPorts == {1234, 43981}

DstPorts == {80}

\* u32 values below 2^31, the integers the checker computes with
Sequences == {2147483647}

Acknowledgements == {2000}

DataOffsets == {0, 5, 6, 15}

\* headers another component hands to from(): ports, sequence, acknowledgement,
\* reserved, flags, window, checksum, urgent_ptr
Headers ==
    { <<1234, 80, 1000, 2000, 0, ACK, 65535, 0, 0>>,
      <<43981, 443, 16909060, 2147483647, 10, 255, 258, 48879, 772>> }

PayloadOf(n) == [i \in 1..n |-> 64 + i]

Payloads == {PayloadOf(n) : n \in 0..MaxPayload}

OptionKinds == {TcpOption_nop, TcpOption_mss(1460)}

OptionLists == UNION {[1..n -> OptionKinds] : n \in 0..MaxOptions}

Caps == {0} \cup ((MINIMUM_PACKET_SIZE - 1)..MaxCap)

Fills == {0, 255}

Buffer(cap, fill) == [i \in 1..cap |-> fill]

FixupHints == {4}

\* bytes 0..19 of a segment received from the network, byte 12 and the flags given
WireBase(b12, flags) ==
    <<4, 210, 0, 80, 1, 2, 3, 4, 127, 254, 253, 252, b12, flags, 16, 32, 190, 239, 48, 64>>

\* data_offset/reserved bytes: 5/0, 6/10, 7/0, 0/0
WireOffsetBytes == {80, 106, 112, 0}

WireFlags == {18}

\* what follows the fixed header: options, padding, payload, nothing at all
WireTails ==
    { <<>>,
      <<2, 4, 5, 180>>,
      <<2, 4, 5, 180, 65, 66>>,
      <<1, 1, 1, 2>>,
      <<3, 0, 9, 9, 1, 1, 1, 1>>,
      <<2, 4, 5, 180, 8, 10, 7, 0, 99>> }

WireBuffers == {WireBase(b, f) \o t : b \in WireOffsetBytes, f \in WireFlags, t \in WireTails}

NoArgs ==
    [src_ip_addr |-> <<>>, dst_ip_addr |-> <<>>, src |-> 0, dst |-> 0,
     sequence |-> 0, acknowledgement |-> 0]

Args(sa, da, sp, dp, sq, ak) ==
    [src_ip_addr |-> sa, dst_ip_addr |-> da, src |-> sp, dst |-> dp,
     sequence |-> sq, acknowledgement |-> ak]

(***************************************************************************)
(* The state machine: one segment owned by the caller, the buffer of the   *)
(* last call (before: as handed in, buf: as left), and that call's result. *)
(* A panic ends the run.                                                   *)
(***************************************************************************)
Running == result.kind # "Panic"

Construct(name, value, a) ==
    /\ seg' = value
    /\ op' = name
    /\ args' = a
    /\ buf' = <<>>
    /\ before' = <<>>
    /\ result' = NoResult

Init ==
    \E sa \in SrcAddrs, da \in DstAddrs, sp \in SrcPorts, dp \in DstPorts,
       sq \in Sequences, ak \in Acknowledgements :
        /\ seg = new_ack(sa, da, sp, dp, sq, ak)
        /\ op = "new_ack"
        /\ args = Args(sa, da, sp, dp, sq, ak)
        /\ buf = <<>>
        /\ before = <<>>
        /\ result = NoResult

NewAck ==
    /\ Running
    /\ \E sa \in SrcAddrs, da \in DstAddrs, sp \in SrcPorts, dp \in DstPorts,
          sq \in Sequences, ak \in Acknowledgements :
           Construct("new_ack", new_ack(sa, da, sp, dp, sq, ak), Args(sa, da, sp, dp, sq, ak))

NewAckSyn ==
    /\ Running
    /\ \E sa \in SrcAddrs, da \in DstAddrs, sp \in SrcPorts, dp \in DstPorts,
          sq \in Sequences, ak \in Acknowledgements :
           Construct("new_ack_syn", new_ack_syn(sa, da, sp, dp, sq, ak),
                     Args(sa, da, sp, dp, sq, ak))

NewRst ==
    /\ Running
    /\ \E sa \in SrcAddrs, da \in DstAddrs, sp \in SrcPorts, dp \in DstPorts,
          sq \in Sequences, ak \in Acknowledgements :
           Construct("new_rst", new_rst(sa, da, sp, dp, sq, ak), Args(sa, da, sp, dp, sq, ak))

From ==
    /\ Running
    /\ \E sa \in SrcAddrs, da \in DstAddrs, h \in Headers, d \in DataOffsets :
           Construct("from",
                     from([source |-> h[1], destination |-> h[2], sequence |-> h[3],
                           acknowledgement |-> h[4], data_offset |-> d, reserved |-> h[5],
                           flags |-> h[6], window |-> h[7], checksum |-> h[8],
                           urgent_ptr |-> h[9], options |-> <<>>, payload |-> <<>>],
                          sa, da),
                     NoArgs)

\* the owning caller edits pub fields of layer directly
SetOptions ==
    /\ Running
    /\ \E o \in OptionLists :
           Construct("edit", [seg EXCEPT !.layer.options = o], NoArgs)

SetPayload ==
    /\ Running
    /\ \E p \in Payloads :
           Construct("edit", [seg EXCEPT !.layer.payload = p], NoArgs)

SetDataOffset ==
    /\ Running
    /\ \E d \in DataOffsets :
           Construct("edit", [seg EXCEPT !.layer.data_offset = d], NoArgs)

\* the caller wraps a received buffer of at least 20 bytes in a TcpPacket
Parse ==
    /\ Running
    /\ \E w \in WireBuffers, sa \in SrcAddrs, da \in DstAddrs :
           /\ seg' = parse(w, sa, da)
           /\ op' = "parse"
           /\ args' = Args(sa, da, 0, 0, 0, 0)
           /\ buf' = w
           /\ before' = w
           /\ result' = NoResult

Serialized(name, out, buffer) ==
    /\ seg' = out.self
    /\ op' = name
    /\ args' = NoArgs
    /\ buf' = out.buffer
    /\ before' = buffer
    /\ result' = out.result

Serialize ==
    /\ Running
    /\ \E cap \in Caps, fill \in Fills :
           Serialized("serialize", serialize(seg, Buffer(cap, fill)), Buffer(cap, fill))

SerializeN ==
    /\ Running
    /\ \E cap \in Caps, fill \in Fills, n \in FixupHints :
           Serialized("serialize_n", serialize_n(seg, Buffer(cap, fill), n), Buffer(cap, fill))

Next ==
    \/ NewAck
    \/ NewAckSyn
    \/ NewRst
    \/ From
    \/ SetOptions
    \/ SetPayload
    \/ SetDataOffset
    \/ Parse
    \/ Serialize
    \/ SerializeN

Spec == Init /\ [][Next]_vars

(***************************************************************************)
(* The flag predicates over every value of the flag byte.                  *)
(***************************************************************************)
FlagValues == 0..255

FlagsInit ==
    /\ \E f \in FlagValues :
           seg = [new_ack(<<10, 0, 0, 1>>, <<10, 0, 0, 2>>, 1234, 80, 1000, 2000)
                      EXCEPT !.layer.flags = f]
    /\ op = "from"
    /\ args = NoArgs
    /\ buf = <<>>
    /\ before = <<>>
    /\ result = NoResult

SetFlags ==
    /\ Running
    /\ \E f \in FlagValues :
           Construct("edit", [seg EXCEPT !.layer.flags = f], NoArgs)

FlagsNext == SetFlags

SpecFlags == FlagsInit /\ [][FlagsNext]_vars

(***************************************************************************)
(* Vocabulary of the properties.                                           *)
(***************************************************************************)
SerializeOps == {"serialize", "serialize_n"}

ConstructorOps == {"new_ack", "new_ack_syn", "new_rst"}

OptionBytes(o) == <<o.number>> \o o.length \o o.data

RECURSIVE OptionsBytes(_)
OptionsBytes(os) == IF Len(os) = 0 THEN <<>> ELSE OptionBytes(Head(os)) \o OptionsBytes(Tail(os))

\* 20 fixed bytes plus the bytes of the options held
HeaderBytes(s) == 20 + Len(OptionsBytes(s.layer.options))

\* an option as TcpOption's constructors build it: kind alone, or kind, length, data
WellFormedOption(o) ==
    \/ o.number \in {0, 1} /\ o.length = <<>> /\ o.data = <<>>
    \/ o.number \notin {0, 1} /\ o.length = <<2 + Len(o.data)>>

ValidSegment(s) ==
    /\ \A i \in 1..Len(s.layer.options) : WellFormedOption(s.layer.options[i])
    /\ s.layer.data_offset \in 5..15
    /\ 4 * s.layer.data_offset = HeaderBytes(s)
    /\ s.layer.reserved \in 0..15
    /\ s.layer.flags \in 0..255

\* the internet checksum, from its definition: pad to 16-bit words, add, fold, complement
PadEven(bytes) == IF Len(bytes) % 2 = 1 THEN bytes \o <<0>> ELSE bytes

RECURSIVE WordSum(_)
WordSum(bytes) ==
    IF Len(bytes) < 2 THEN 0
    ELSE bytes[1] * 256 + bytes[2] + WordSum(SubSeq(bytes, 3, Len(bytes)))

RECURSIVE FoldCarry(_)
FoldCarry(n) == IF n > 65535 THEN FoldCarry((n % 65536) + (n \div 65536)) ELSE n

InternetChecksum(bytes) == 65535 - FoldCarry(WordSum(PadEven(bytes)))

PseudoHeader(src, dst, len) == src \o dst \o <<0, 6>> \o <<len \div 256, len % 256>>

ChecksumZeroed(bytes) ==
    [i \in 1..Len(bytes) |-> IF i \in {17, 18} THEN 0 ELSE bytes[i]]

ExpectedChecksum(s, bytes) ==
    InternetChecksum(PseudoHeader(s.src, s.dst, Len(bytes)) \o ChecksumZeroed(bytes))

SameHeaderFields(a, b) ==
    /\ a.src = b.src
    /\ a.dst = b.dst
    /\ \A k \in {"source", "destination", "sequence", "acknowledgement", "data_offset",
                 "reserved", "flags", "window", "urgent_ptr", "options"} :
           a.layer[k] = b.layer[k]

(***************************************************************************)
(* C1: a buffer smaller than the segment's size makes serialize and         *)
(* serialize_n return the buffer-too-small error and leaves every byte of   *)
(* the buffer as it was.  Stated for the segments whose size is beyond      *)
(* doubt: get_size() and 4 * data_offset + len(payload) agree.              *)
(***************************************************************************)
C1_ShortBufferRejected ==
    (/\ op \in SerializeOps
     /\ ValidSegment(seg)
     /\ get_size(seg) = 4 * seg.layer.data_offset + Len(seg.layer.payload)
     /\ Len(before) < get_size(seg))
        => (result = Err /\ buf = before)

(***************************************************************************)
(* C2: get_size() is 4 * data_offset + len(payload) for every segment, the  *)
(* stored data_offset being in its valid range 5..15.                       *)
(***************************************************************************)
C2_SizeFromDataOffset ==
    seg.layer.data_offset \in 5..15
        => get_size(seg) = 4 * seg.layer.data_offset + Len(seg.layer.payload)

(***************************************************************************)
(* C3: a valid segment serialized into a buffer of exactly get_size() bytes *)
(* succeeds, parses back to the same segment except payload (empty) and     *)
(* checksum, and the parsed segment serializes to the same header bytes.    *)
(***************************************************************************)
C3_RoundTrip ==
    (op = "serialize" /\ ValidSegment(seg) /\ Len(before) = get_size(seg))
        => /\ result.kind = "Ok"
           /\ LET back == parse(buf, seg.src, seg.dst)
                  again == serialize(back, Buffer(get_size(back), 0))
              IN /\ SameHeaderFields(back, seg)
                 /\ back.layer.payload = <<>>
                 /\ (seg.layer.payload = <<>> =>
                        /\ again.result.kind = "Ok"
                        /\ SubSeq(again.buffer, 1, HeaderBytes(seg))
                               = SubSeq(buf, 1, HeaderBytes(seg)))

(***************************************************************************)
(* C4: after a successful serialize_n the data_offset in the buffer is the  *)
(* header length in bytes, 20 + options length, divided by 4, whatever the  *)
(* payload length.                                                          *)
(***************************************************************************)
C4_FixupHeaderLength ==
    (op = "serialize_n" /\ result.kind = "Ok")
        => get_data_offset(buf) = HeaderBytes(seg) \div 4

(***************************************************************************)
(* C5: after a successful serialization into a buffer at least as large as  *)
(* the segment, the checksum in the buffer is the internet checksum of the  *)
(* pseudo-header and the segment's own bytes, whatever the buffer holds or  *)
(* measures beyond the segment.                                             *)
(***************************************************************************)
C5_ChecksumOverSegment ==
    (op \in SerializeOps /\ result.kind = "Ok")
        => get_u16(buf, 16) = ExpectedChecksum(seg, SubSeq(buf, 1, get_size(seg)))

(***************************************************************************)
(* C6: a successful serialization returns the bytes written, 4 * the        *)
(* data_offset in the written header + the payload length.                  *)
(***************************************************************************)
C6_ReturnsBytesWritten ==
    (op \in SerializeOps /\ result.kind = "Ok" /\ seg.layer.data_offset \in 5..15)
        => result.n = 4 * get_data_offset(buf) + Len(seg.layer.payload)

(***************************************************************************)
(* C7: new_ack, new_ack_syn and new_rst return a segment carrying their     *)
(* arguments, data_offset 5, reserved 0, window 65535, checksum 0, urgent   *)
(* pointer 0, no options, no payload, and flags exactly ACK, ACK|SYN, RST.  *)
(***************************************************************************)
C7_Constructors ==
    op \in ConstructorOps
        => /\ result = NoResult
           /\ seg.src = args.src_ip_addr
           /\ seg.dst = args.dst_ip_addr
           /\ seg.layer.source = args.src
           /\ seg.layer.destination = args.dst
           /\ seg.layer.sequence = args.sequence
           /\ seg.layer.acknowledgement = args.acknowledgement
           /\ seg.layer.data_offset = 5
           /\ seg.layer.reserved = 0
           /\ seg.layer.window = 65535
           /\ seg.layer.checksum = 0
           /\ seg.layer.urgent_ptr = 0
           /\ seg.layer.options = <<>>
           /\ seg.layer.payload = <<>>
           /\ (op = "new_ack" => seg.layer.flags = 16)
           /\ (op = "new_ack_syn" => seg.layer.flags = 18 /\ is_ack(seg) /\ is_syn(seg))
           /\ (op = "new_rst" => seg.layer.flags = 4 /\ is_rst(seg) /\ ~is_ack(seg))

C7_Witness ==
    /\ op = "new_rst"
    /\ args.src = 43981
    /\ seg.layer.source = 43981
    /\ is_rst(seg)

(***************************************************************************)
(* C8: parse copies every header field from the wire without validating    *)
(* it, takes the addresses it is given, leaves the payload empty, and,     *)
(* when the buffer holds the declared header, holds as options exactly the *)
(* bytes the wire data_offset declares.                                    *)
(***************************************************************************)
C8_ParseVerbatim ==
    op = "parse"
        => /\ result = NoResult
           /\ seg.src = args.src_ip_addr
           /\ seg.dst = args.dst_ip_addr
           /\ U16BE(seg.layer.source) = SubSeq(buf, 1, 2)
           /\ U16BE(seg.layer.destination) = SubSeq(buf, 3, 4)
           /\ U32BE(seg.layer.sequence) = SubSeq(buf, 5, 8)
           /\ U32BE(seg.layer.acknowledgement) = SubSeq(buf, 9, 12)
           /\ seg.layer.data_offset \in 0..15
           /\ seg.layer.reserved \in 0..15
           /\ seg.layer.data_offset * 16 + seg.layer.reserved = buf[13]
           /\ seg.layer.flags = buf[14]
           /\ U16BE(seg.layer.window) = SubSeq(buf, 15, 16)
           /\ U16BE(seg.layer.checksum) = SubSeq(buf, 17, 18)
           /\ U16BE(seg.layer.urgent_ptr) = SubSeq(buf, 19, 20)
           /\ seg.layer.payload = <<>>
           /\ LET declared == IF buf[13] \div 16 > 5 THEN 4 * (buf[13] \div 16) ELSE 20
              IN Len(buf) >= declared
                     => OptionsBytes(seg.layer.options) = SubSeq(buf, 21, declared)

\* a wrong checksum, a data_offset of 6 with options, and bytes after the header
C8_Witness ==
    /\ op = "parse"
    /\ seg.layer.data_offset = 6
    /\ Len(seg.layer.options) > 0
    /\ Len(buf) > 24
    /\ seg.layer.checksum # ExpectedChecksum(seg, buf)
    /\ seg.layer.payload = <<>>

(***************************************************************************)
(* C9: for each of the 256 flag bytes, is_ack, is_rst, is_syn and is_fin   *)
(* are true exactly when their own bit is set, and is_rst_or_fin exactly   *)
(* when the RST bit or the FIN bit is.                                     *)
(***************************************************************************)
C9_FlagPredicates ==
    LET f == seg.layer.flags
    IN /\ is_ack(seg) <=> (f \div 16) % 2 = 1
       /\ is_rst(seg) <=> (f \div 4) % 2 = 1
       /\ is_syn(seg) <=> (f \div 2) % 2 = 1
       /\ is_fin(seg) <=> f % 2 = 1
       /\ is_rst_or_fin(seg) <=> (is_rst(seg) \/ is_fin(seg))
       /\ is_rst_or_fin(seg) <=> ((f \div 4) % 2 = 1 \/ f % 2 = 1)

\* RST and FIN set together, ACK and SYN clear
C9_Witness ==
    /\ op = "edit"
    /\ seg.layer.flags = 5
    /\ is_rst_or_fin(seg)
    /\ ~is_ack(seg)

(***************************************************************************)
(* C10: a call of serialize or serialize_n, successful or failed, leaves   *)
(* every field of the segment as it was, so get_size() stays the same, and *)
(* the same call on the same buffer contents gives the same bytes and the  *)
(* same result.                                                            *)
(***************************************************************************)
C10_SerializeKeepsSegment ==
    [][op' \in SerializeOps
          => /\ seg' = seg
             /\ get_size(seg') = get_size(seg)
             /\ (op = op' /\ before' = before => buf' = buf /\ result' = result)]_vars

\* a fixup and a checksum that went to the buffer and not to the segment
C10_Witness ==
    /\ op = "serialize_n"
    /\ result.kind = "Ok"
    /\ get_data_offset(buf) # seg.layer.data_offset
    /\ get_u16(buf, 16) # seg.layer.checksum

====
